---- MODULE Spec2Model ----
(***************************************************************************)
(* MindSync: the calendar client (GoogleCalendarAPI), its OAuth handler    *)
(* and the Streamlit session that holds the current snapshot.              *)
(*                                                                         *)
(* Conventions.  A datetime is a number of minutes since Monday 00:00 of   *)
(* the week the model looks at.  A Python dict is a function; the empty    *)
(* dict {} is the function with the empty domain.  A Python float that is  *)
(* the quotient of two integers is kept as the exact fraction [num, den]   *)
(* in lowest terms.                                                        *)
(***************************************************************************)
EXTENDS Integers, Sequences, FiniteSets, TLC

VARIABLES
    session,       \* st.session_state, one field per entry
    credentials,   \* GoogleOAuthHandler.credentials
    service,       \* GoogleCalendarAPI.service is not None
    api_handler,   \* GoogleCalendarAPI.oauth_handler is not None
    token_file,    \* the file TOKEN_FILE on disk
    now,           \* datetime.now()
    api_items,     \* what the Google server answers events().list with
    ret,           \* the last call: its name, input and return value
    prev,          \* the call before it, when it was the same call on the same input
    ui,            \* the st.* messages the last handler emitted
    threads        \* the callers that run sync_calendar_data side by side

vars == <<session, credentials, service, api_handler, token_file, now,
          api_items, ret, prev, ui, threads>>

----------------------------------------------------------------------------
(* Bounds of the model. *)

MaxBatch == 4
MaxFetch == 2
MaxTicks == 2
MaxRecords == 1

(* Minutes: the unit of the model's clock. *)
MinutesPerHour == 60
MinutesPerDay == 24 * MinutesPerHour

(* The clock starts on Monday at 08:00 and moves in steps of twelve hours. *)
StartOfClock == 8 * MinutesPerHour
ClockStep == 12 * MinutesPerHour

(* None, a missing session-state key and a value that is there: an optional
   value is the empty sequence or the one-element sequence of the value. *)
None == <<>>
Absent == <<>>
Some(x) == <<x>>
EmptyDict == [k \in {} |-> 0]

DayNames == <<"Monday", "Tuesday", "Wednesday", "Thursday", "Friday",
              "Saturday", "Sunday">>

(* datetime.date(), datetime.hour and strftime('%A') of a datetime. *)
DateOf(t) == t \div MinutesPerDay
HourOf(t) == (t % MinutesPerDay) \div MinutesPerHour
strftime_A(t) == DayNames[(DateOf(t) % 7) + 1]

RECURSIVE Gcd(_, _)
Gcd(a, b) == IF b = 0 THEN a ELSE Gcd(b, a % b)

(* The quotient a / b of true division, b > 0, as a fraction in lowest terms. *)
TrueDiv(a, b) == LET g == Gcd(a, b) IN [num |-> a \div g, den |-> b \div g]

(* round(total / 60, 1): the hours in total minutes, rounded to a tenth and
   written as a fraction.  A tie lies on a quarter of an hour whenever total is
   a multiple of five minutes, as every total of the model is; a float holds
   that value exactly and round() takes the even tenth. *)
RoundHours(total) ==
    LET q == total \div 6
        r == total % 6
        tenths == IF r < 3 THEN q
                  ELSE IF r > 3 THEN q + 1
                  ELSE IF q % 2 = 0 THEN q ELSE q + 1
    IN  TrueDiv(tenths, 10)

(* Python's sum() and max() over a sequence of integers. *)
RECURSIVE SumSeq(_)
SumSeq(s) == IF s = <<>> THEN 0 ELSE Head(s) + SumSeq(Tail(s))

(* max() that looks at the first element only. *)
MaxSeq_First(s) == Head(s)

RECURSIVE MaxSeq(_)
MaxSeq(s) ==
    IF Len(s) = 1 THEN Head(s)
    ELSE LET m == MaxSeq(Tail(s)) IN IF Head(s) >= m THEN Head(s) ELSE m

(* All sequences over S of length at most n. *)
SeqsUpTo(S, n) == UNION {[1..k -> S] : k \in 0..n}

----------------------------------------------------------------------------
(* Raw event records of the Google Calendar shape, and the canonical event. *)

DateTime(t) == [kind |-> "dateTime", v |-> t]
AllDay(d) == [kind |-> "date", v |-> d]
NoTime == [kind |-> "missing", v |-> 0]

RawEvent(summary, start, end, attendees, hint) ==
    [summary |-> summary, start |-> start, end |-> end,
     attendees |-> attendees, hint |-> hint]

CanonicalTypes == {"meeting", "focus_time", "personal", "other"}

(* str.lower() on the type hints the model feeds in. *)
Lower(h) ==
    CASE h = "MEETING" -> "meeting"
      [] h = "Focus_Time" -> "focus_time"
      [] OTHER -> h

(* 'focus' in title.lower(), on the titles the model feeds in. *)
ContainsFocus(title) == title \in {"Focus block", "Deep FOCUS"}

(* Start and end of a record's time field: a dateTime as given, a date-only
   (all-day) field as 00:00 for a start and 23:59 for an end. *)
StartTime(f) == IF f.kind = "date" THEN f.v * MinutesPerDay ELSE f.v
EndTime(f) == IF f.kind = "date" THEN f.v * MinutesPerDay + (MinutesPerDay - 1) ELSE f.v

(* The classification with the keyword rule ahead of the participant rule. *)
ClassifyType_FocusFirst(title, n, hint) ==
    IF Lower(hint) \in CanonicalTypes THEN Lower(hint)
    ELSE IF ContainsFocus(title) THEN "focus_time"
    ELSE IF n > 1 THEN "meeting"
    ELSE IF n = 0 THEN "personal"
    ELSE "other"

(* The classification without the participant rule. *)
ClassifyType_NoParticipantRule(title, n, hint) ==
    IF Lower(hint) \in CanonicalTypes THEN Lower(hint)
    ELSE IF ContainsFocus(title) THEN "focus_time"
    ELSE IF n = 0 THEN "personal"
    ELSE "other"

ClassifyType(title, n, hint) ==
    IF Lower(hint) \in CanonicalTypes THEN Lower(hint)
    ELSE IF n > 1 THEN "meeting"
    ELSE IF ContainsFocus(title) THEN "focus_time"
    ELSE IF n = 0 THEN "personal"
    ELSE "other"

(* The conversion that clamps an end before the start to an empty event. *)
Normalize_ClampToZero(raw, source) ==
    LET title == IF raw.summary = "" THEN "Untitled Event" ELSE raw.summary
        n == Len(raw.attendees)
    IN  IF raw.start.kind = "missing" \/ raw.end.kind = "missing"
        THEN [ok |-> FALSE, error |-> "MalformedTimestamp", title |-> title]
        ELSE LET type == ClassifyType(title, n, raw.hint)
                 start == StartTime(raw.start)
                 end == IF EndTime(raw.end) < start THEN start ELSE EndTime(raw.end)
             IN  [ok |-> TRUE,
                  event |->
                    [title |-> title,
                     start_time |-> start,
                     end_time |-> end,
                     duration_minutes |-> end - start,
                     participants |-> raw.attendees,
                     event_type |-> type,
                     is_meeting |-> (type = "meeting" \/ n > 1),
                     source |-> source]]

(* The conversion without the validation of the interval. *)
Normalize_NoIntervalCheck(raw, source) ==
    LET title == IF raw.summary = "" THEN "Untitled Event" ELSE raw.summary
        n == Len(raw.attendees)
    IN  IF raw.start.kind = "missing" \/ raw.end.kind = "missing"
        THEN [ok |-> FALSE, error |-> "MalformedTimestamp", title |-> title]
        ELSE LET type == ClassifyType(title, n, raw.hint)
             IN  [ok |-> TRUE,
                  event |->
                    [title |-> title,
                     start_time |-> StartTime(raw.start),
                     end_time |-> EndTime(raw.end),
                     duration_minutes |-> EndTime(raw.end) - StartTime(raw.start),
                     participants |-> raw.attendees,
                     event_type |-> type,
                     is_meeting |-> (type = "meeting" \/ n > 1),
                     source |-> source]]

(* The canonical event of a raw record of the given source, or the error its
   conversion raises. *)
Normalize(raw, source) ==
    LET title == IF raw.summary = "" THEN "Untitled Event" ELSE raw.summary
        n == Len(raw.attendees)
    IN  IF raw.start.kind = "missing" \/ raw.end.kind = "missing"
        THEN [ok |-> FALSE, error |-> "MalformedTimestamp", title |-> title]
        ELSE IF EndTime(raw.end) < StartTime(raw.start)
        THEN [ok |-> FALSE, error |-> "InvalidInterval", title |-> title]
        ELSE LET type == ClassifyType(title, n, raw.hint)
             IN  [ok |-> TRUE,
                  event |->
                    [title |-> title,
                     start_time |-> StartTime(raw.start),
                     end_time |-> EndTime(raw.end),
                     duration_minutes |-> EndTime(raw.end) - StartTime(raw.start),
                     participants |-> raw.attendees,
                     event_type |-> type,
                     is_meeting |-> (type = "meeting" \/ n > 1),
                     source |-> source]]

(* CalendarEvent.from_google_calendar *)
from_google_calendar(raw) == Normalize(raw, "google")

(* The conversion CalendarParser applies to one record of a sample file. *)
from_sample(raw) == Normalize(raw, "sample")

(* The records the Google server of the model can hold. *)
TeamSync == RawEvent("Team Sync", DateTime(540), DateTime(570), <<"a@x.com", "b@x.com">>, "")
Planning == RawEvent("Planning", DateTime(840), DateTime(900), <<"a@x.com", "b@x.com", "c@x.com">>, "")
Review == RawEvent("Review", DateTime(1980), DateTime(2070), <<"a@x.com", "c@x.com">>, "")
FocusBlock == RawEvent("Focus block", DateTime(2280), DateTime(2305), <<>>, "")
NoStart == RawEvent("Broken", NoTime, DateTime(600), <<"a@x.com">>, "")
Reversed == RawEvent("Reversed", DateTime(600), DateTime(570), <<>>, "")

ApiRecords == {TeamSync, Planning, Review, FocusBlock, NoStart}
SmallRecords == {TeamSync, FocusBlock, Reversed}

(* Records whose type hint and attendees pull apart: a personal event with
   two attendees, a meeting with one, an event with one attendee and no hint. *)
Offsite == RawEvent("Offsite", DateTime(3000), DateTime(3060), <<"a@x.com", "b@x.com">>, "personal")
OneOnOne == RawEvent("One on one", DateTime(660), DateTime(690), <<"a@x.com">>, "MEETING")
Errand == RawEvent("Errand", DateTime(720), DateTime(750), <<"a@x.com">>, "")

HintedRecords == {TeamSync, FocusBlock, Offsite, OneOnOne, Errand}

(* Records of every shape the conversion tells apart: titles with and without
   the keyword, intervals that are timed, empty, all-day, reversed or without
   a start, zero to two attendees, and type hints that are absent, recognized
   in either case, or unknown. *)
Titles == {"Team Sync", "Deep FOCUS"}
Intervals == {<<DateTime(540), DateTime(570)>>, <<DateTime(600), DateTime(600)>>,
              <<AllDay(1), AllDay(1)>>, <<DateTime(600), DateTime(570)>>,
              <<NoTime, DateTime(600)>>}
AttendeeLists == {<<>>, <<"a@x.com">>, <<"a@x.com", "b@x.com">>}
Hints == {"", "MEETING", "personal", "holiday"}

NormalizerRecords ==
    {RawEvent(title, iv[1], iv[2], att, hint) :
        title \in Titles, iv \in Intervals, att \in AttendeeLists, hint \in Hints}

----------------------------------------------------------------------------
(* The aggregation of get_calendar_statistics and of dashboard_page. *)

(* d[k] = d.get(k, 0) + 1 *)
DictInc(d, k) == IF k \in DOMAIN d THEN [d EXCEPT ![k] = @ + 1] ELSE d @@ (k :> 1)

(* The loop 'for event in events: d[key] = d.get(key, 0) + 1' over the keys
   of the events, from the dict d. *)
RECURSIVE CountKeys(_, _)
CountKeys(keys, d) ==
    IF keys = <<>> THEN d ELSE CountKeys(Tail(keys), DictInc(d, Head(keys)))

SeqMap(s, F(_)) == [i \in 1..Len(s) |-> F(s[i])]

DurationOf(e) == e.duration_minutes

(* A meeting count that looks at the type in place of the flag. *)
IsMeeting_TypeOnly(e) == e.event_type = "meeting"

IsMeeting(e) == e.is_meeting
IsFocusTime(e) == e.event_type = "focus_time"

events_by_day(events) == CountKeys(SeqMap(events, LAMBDA e : strftime_A(e.start_time)), EmptyDict)
(* events_by_type started from a dict that holds every type with count 0. *)
events_by_type_AllKeys(events) ==
    CountKeys(SeqMap(events, LAMBDA e : e.event_type), [k \in CanonicalTypes |-> 0])

events_by_type(events) == CountKeys(SeqMap(events, LAMBDA e : e.event_type), EmptyDict)
events_by_hour(events) == CountKeys(SeqMap(events, LAMBDA e : HourOf(e.start_time)), EmptyDict)

(* The average with floor division in place of true division. *)
average_event_duration_Floor(events) ==
    [num |-> SumSeq(SeqMap(events, DurationOf)) \div Len(events), den |-> 1]

average_event_duration(events) ==
    TrueDiv(SumSeq(SeqMap(events, DurationOf)), Len(events))

(* The dict get_calendar_statistics returns for the events of the week. *)
CalendarStatistics(events) ==
    IF events = <<>> THEN EmptyDict
    ELSE [total_events |-> Len(events),
          total_meetings |-> Len(SelectSeq(events, IsMeeting)),
          total_focus_time |-> Len(SelectSeq(events, IsFocusTime)),
          total_duration_minutes |-> SumSeq(SeqMap(events, DurationOf)),
          average_event_duration |-> average_event_duration(events),
          longest_event_duration |-> MaxSeq(SeqMap(events, DurationOf)),
          events_by_day |-> events_by_day(events),
          events_by_type |-> events_by_type(events),
          events_by_hour |-> events_by_hour(events)]

(* max(events, key=lambda x: x.duration_minutes): the first event of the
   longest duration. *)
RECURSIVE LongestEvent(_)
LongestEvent(events) ==
    IF Len(events) = 1 THEN Head(events)
    ELSE LET m == LongestEvent(Tail(events))
         IN  IF Head(events).duration_minutes >= m.duration_minutes
             THEN Head(events) ELSE m

(* The metrics dashboard_page shows for the events of the session; none when
   it returns early on an empty snapshot. *)
DashboardMetrics(events) ==
    IF events = <<>> THEN EmptyDict
    ELSE LET total_duration == SumSeq(SeqMap(events, DurationOf))
         IN  [total_events |-> Len(events),
              total_duration |-> total_duration,
              meetings |-> Len(SelectSeq(events, IsMeeting)),
              focus_time |-> Len(SelectSeq(events, IsFocusTime)),
              avg_duration |-> TrueDiv(total_duration, Len(events)),
              longest_event |-> LongestEvent(events).duration_minutes]

----------------------------------------------------------------------------
(* The objects the handlers work on, as one record w: the session state, the
   OAuth handler's credentials, the API client's service and handler, and the
   token file.  Every operation below maps w to [w, val, ui]: the objects
   after it, its return value and the st.* messages it emitted. *)

NoUi == [errors |-> 0, warnings |-> 0]
Err == [errors |-> 1, warnings |-> 0]
Warn(n) == [errors |-> 0, warnings |-> n]
UiSum(a, b) == [errors |-> a.errors + b.errors, warnings |-> a.warnings + b.warnings]

Out(w, val, msgs) == [w |-> w, val |-> val, ui |-> msgs]

(* F applied to the value of x, x evaluated once: the local variable of a
   handler that holds the result of a call. *)
Bind(x, F(_)) == CHOOSE r \in {F(v) : v \in {x}} : TRUE

(* A logout that leaves the token file on disk. *)
handler_logout_KeepsTokenFile(w) ==
    [w EXCEPT !.credentials = "none",
              !.session.google_credentials = FALSE,
              !.session.google_user_info = FALSE,
              !.session.oauth_flow = FALSE]

(* GoogleOAuthHandler.logout *)
handler_logout(w) ==
    [w EXCEPT !.credentials = "none",
              !.session.google_credentials = FALSE,
              !.session.google_user_info = FALSE,
              !.session.oauth_flow = FALSE,
              !.token_file = "absent"]

(* GoogleOAuthHandler.get_valid_credentials; val: the credentials are not None.
   Credentials rebuilt from the session entry carry no expiry, so they are
   never expired; those of the token file are refreshed when expired, and
   refresh_ok says whether the refresh request succeeds. *)
get_valid_credentials(w, refresh_ok) ==
    IF w.credentials = "valid" THEN Out(w, TRUE, NoUi)
    ELSE IF w.session.google_credentials
    THEN Out([w EXCEPT !.credentials = "valid"], TRUE, NoUi)
    ELSE IF w.token_file = "valid"
    THEN Out([w EXCEPT !.credentials = "valid",
                       !.session.google_credentials = TRUE], TRUE, NoUi)
    ELSE IF w.token_file = "expired" /\ refresh_ok
    THEN Out([w EXCEPT !.credentials = "valid", !.token_file = "valid",
                       !.session.google_credentials = TRUE], TRUE, NoUi)
    ELSE IF w.token_file = "expired"
    THEN Out([w EXCEPT !.credentials = "expired"], FALSE, Err)
    ELSE Out(w, FALSE, NoUi)

(* GoogleOAuthHandler.is_authenticated *)
is_authenticated(w, refresh_ok) == get_valid_credentials(w, refresh_ok)

(* GoogleCalendarAPI._initialize_service *)
initialize_service(w, refresh_ok) ==
    Bind(get_valid_credentials([w EXCEPT !.api_handler = TRUE], refresh_ok),
         LAMBDA c : IF c.val THEN Out([c.w EXCEPT !.service = TRUE], TRUE, c.ui)
                    ELSE Out(c.w, FALSE, c.ui))

(* GoogleCalendarAPI.is_connected *)
is_connected(w, refresh_ok) ==
    IF w.service THEN Out(w, TRUE, NoUi)
    ELSE Bind(initialize_service(w, refresh_ok),
              LAMBDA i : Out(i.w, i.w.service, i.ui))

(* The outcomes of one request to the Google API: the answer, an HttpError
   with its status, or another exception. *)
Responses == {"ok", "401", "403", "500", "error"}

(* The conversion loop without its try: the first record that fails ends it. *)
RECURSIVE ConvertAll_AbortOnError(_)
ConvertAll_AbortOnError(items) ==
    IF items = <<>> THEN <<>>
    ELSE LET r == from_google_calendar(Head(items))
         IN  IF r.ok THEN <<r.event>> \o ConvertAll_AbortOnError(Tail(items)) ELSE <<>>

(* The conversion loop of get_events and search_events: the events of the
   records whose conversion succeeds, in the order of the input. *)
RECURSIVE ConvertAll(_)
ConvertAll(items) ==
    IF items = <<>> THEN <<>>
    ELSE LET r == from_google_calendar(Head(items))
         IN  (IF r.ok THEN <<r.event>> ELSE <<>>) \o ConvertAll(Tail(items))

(* The number of records of a batch whose conversion raises. *)
RECURSIVE FailedCount(_)
FailedCount(items) ==
    IF items = <<>> THEN 0
    ELSE (IF from_google_calendar(Head(items)).ok THEN 0 ELSE 1) + FailedCount(Tail(items))

(* get_events with the logout in every HttpError branch, not only the 401 one. *)
get_events_LogoutOnAnyError(w, resp, items, refresh_ok) ==
    Bind(is_connected(w, refresh_ok), LAMBDA c :
        IF ~c.val THEN Out(c.w, <<>>, UiSum(c.ui, Err))
        ELSE IF resp = "ok"
        THEN IF items = <<>> THEN Out(c.w, <<>>, c.ui)
             ELSE Out(c.w, ConvertAll(items), UiSum(c.ui, Warn(FailedCount(items))))
        ELSE IF resp \in {"401", "403", "500"}
        THEN Out(IF c.w.api_handler THEN handler_logout(c.w) ELSE c.w,
                 <<>>, UiSum(c.ui, Err))
        ELSE Out(c.w, <<>>, UiSum(c.ui, Err)))

(* GoogleCalendarAPI.get_events (and get_week_events, which only sets its
   time range). *)
get_events(w, resp, items, refresh_ok) ==
    Bind(is_connected(w, refresh_ok), LAMBDA c :
        IF ~c.val THEN Out(c.w, <<>>, UiSum(c.ui, Err))
        ELSE IF resp = "ok"
        THEN IF items = <<>> THEN Out(c.w, <<>>, c.ui)
             ELSE Out(c.w, ConvertAll(items), UiSum(c.ui, Warn(FailedCount(items))))
        ELSE IF resp = "401"
        THEN Out(IF c.w.api_handler THEN handler_logout(c.w) ELSE c.w,
                 <<>>, UiSum(c.ui, Err))
        ELSE Out(c.w, <<>>, UiSum(c.ui, Err)))

(* GoogleCalendarAPI.search_events *)
search_events(w, resp, items, refresh_ok) ==
    Bind(is_connected(w, refresh_ok), LAMBDA c :
        IF ~c.val THEN Out(c.w, <<>>, c.ui)
        ELSE IF resp = "ok" THEN Out(c.w, ConvertAll(items), c.ui)
        ELSE Out(c.w, <<>>, UiSum(c.ui, Err)))

(* The calendar list of the account. *)
ServerCalendars == <<"primary">>

(* GoogleCalendarAPI.get_calendars *)
get_calendars(w, resp, refresh_ok) ==
    Bind(is_connected(w, refresh_ok), LAMBDA c :
        IF ~c.val THEN Out(c.w, <<>>, c.ui)
        ELSE IF resp = "ok" THEN Out(c.w, ServerCalendars, c.ui)
        ELSE Out(c.w, <<>>, UiSum(c.ui, Err)))

(* The summary with total_meetings counted over today's events only. *)
SyncSummary_MeetingsOfToday(calendars, events, t) ==
    [calendars_count |-> Len(calendars),
     total_events |-> Len(events),
     total_meetings |-> Len(SelectSeq(events,
                           LAMBDA e : e.is_meeting /\ DateOf(e.start_time) = DateOf(t))),
     total_duration_hours |-> RoundHours(SumSeq(SeqMap(events, DurationOf))),
     today_events |-> Len(SelectSeq(events, LAMBDA e : DateOf(e.start_time) = DateOf(t))),
     sync_time |-> t,
     events |-> events,
     calendars |-> calendars]

(* The summary dict sync_calendar_data builds from the calendars and events
   it fetched at the time t. *)
SyncSummary(calendars, events, t) ==
    [calendars_count |-> Len(calendars),
     total_events |-> Len(events),
     total_meetings |-> Len(SelectSeq(events, IsMeeting)),
     total_duration_hours |-> RoundHours(SumSeq(SeqMap(events, DurationOf))),
     today_events |-> Len(SelectSeq(events, LAMBDA e : DateOf(e.start_time) = DateOf(t))),
     sync_time |-> t,
     events |-> events,
     calendars |-> calendars]

(* GoogleCalendarAPI.sync_calendar_data *)
sync_calendar_data(w, resp_cal, resp_ev, items, refresh_ok, t) ==
    Bind(get_calendars(w, resp_cal, refresh_ok), LAMBDA cals :
    Bind(get_events(cals.w, resp_ev, items, refresh_ok), LAMBDA evs :
    Bind(SyncSummary(cals.val, evs.val, t), LAMBDA summary :
        Out([evs.w EXCEPT !.session.calendar_sync_data = Some(summary)],
            summary, UiSum(cals.ui, evs.ui)))))

(* GoogleCalendarAPI.get_calendar_statistics *)
get_calendar_statistics(w, resp, items, refresh_ok) ==
    Bind(get_events(w, resp, items, refresh_ok), LAMBDA evs :
        Out(evs.w, CalendarStatistics(evs.val), evs.ui))

----------------------------------------------------------------------------
(* The calendar documents the sample files and an upload can hold, and their
   parser. *)

Doc(name, events) == [kind |-> "document", name |-> name, events |-> events]

LightDay == Doc("light_day", Some(<<FocusBlock>>))
BusyDay == Doc("busy_day", Some(<<TeamSync, Reversed, Planning>>))
NotACalendar == Doc("not_a_calendar", None)

Documents == {LightDay, BusyDay, NotACalendar}

(* What reading a file gives: a document, FileNotFoundError, or the error
   json.load raises on text that is not JSON. *)
FileOutcomes == {[found |-> TRUE, json |-> TRUE, doc |-> Some(d)] : d \in Documents}
                \cup {[found |-> FALSE, json |-> FALSE, doc |-> None],
                      [found |-> TRUE, json |-> FALSE, doc |-> None]}

(* CalendarParser.parse_calendar: the events of the records that convert, or
   ok = FALSE when the document holds no event array and the parser raises. *)
parse_calendar(doc) ==
    IF doc.events = None THEN [ok |-> FALSE, events |-> <<>>]
    ELSE LET rs == SeqMap(doc.events[1], from_sample)
         IN  [ok |-> TRUE,
              events |-> SeqMap(SelectSeq(rs, LAMBDA r : r.ok), LAMBDA r : r.event)]

(* CalendarEvent.to_dict: the dict of the event's fields. *)
to_dict(e) == e

----------------------------------------------------------------------------
(* The handlers of app.py, on the same record w. *)

InitSession ==
    [authenticated |-> FALSE,
     username |-> None,
     calendar_provider |-> None,
     calendar_data |-> None,
     parsed_events |-> <<>>,
     calendar_sync_data |-> Absent,
     google_credentials |-> FALSE,
     google_user_info |-> FALSE,
     oauth_flow |-> FALSE,
     google_auth_url |-> FALSE]

(* The snapshot the session holds: the events and the data they came from. *)
Snapshot(sess) == <<sess.parsed_events, sess.calendar_data>>

(* The body of load_calendar_data and of load_sample_calendar after the file
   was chosen: json.load, the assignment of calendar_data, the parse, the
   assignment of parsed_events; every exception ends the handler. *)
load_document(w, file) ==
    IF ~file.found \/ ~file.json THEN Out(w, FALSE, Err)
    ELSE Bind([w EXCEPT !.session.calendar_data = file.doc], LAMBDA stored :
         Bind(parse_calendar(file.doc[1]), LAMBDA parsed :
             IF ~parsed.ok THEN Out(stored, FALSE, Err)
             ELSE Out([stored EXCEPT !.session.parsed_events = parsed.events],
                      TRUE, NoUi)))

(* load_calendar_data(provider); file: what the provider's sample file, or
   its fallback when that one is missing, gives. *)
load_calendar_data(w, file) == load_document(w, file)

(* load_sample_calendar(sample_type) *)
load_sample_calendar(w, file) == load_document(w, file)

(* The upload branch of calendar_data_page. *)
upload_calendar(w, file) == load_document(w, file)

(* load_real_google_calendar; val: the sync fetched the events. *)
load_real_google_calendar(w, resp_cal, resp_ev, items, refresh_ok, t) ==
    Bind(is_connected(w, refresh_ok), LAMBDA c :
        IF ~c.val THEN Out(c.w, FALSE, UiSum(c.ui, Err))
        ELSE Bind(sync_calendar_data(c.w, resp_cal, resp_ev, items, refresh_ok, t),
                  LAMBDA s :
                Out([s.w EXCEPT
                        !.session.parsed_events = s.val.events,
                        !.session.calendar_data =
                            Some([kind |-> "google",
                                  events |-> SeqMap(s.val.events, to_dict),
                                  sync_summary |-> s.val])],
                    resp_ev = "ok", UiSum(c.ui, s.ui))))

(* A logout that leaves calendar_provider and parsed_events in the session. *)
logout_KeepsProvider(w) ==
        [handler_logout(w) EXCEPT !.session.authenticated = FALSE,
                  !.session.username = None,
                  !.session.calendar_data = None,
                  !.credentials = "none",
                  !.service = FALSE,
                  !.api_handler = FALSE]

(* logout of app.py: the handler's logout, the five entries it resets, and
   fresh handler and client objects. *)
logout(w) ==
        [handler_logout(w) EXCEPT !.session.authenticated = FALSE,
                  !.session.username = None,
                  !.session.calendar_provider = None,
                  !.session.calendar_data = None,
                  !.session.parsed_events = <<>>,
                  !.credentials = "none",
                  !.service = FALSE,
                  !.api_handler = FALSE]

(* USER_DATABASE and hash_password, on the passwords the model types in. *)
hash_password(p) ==
    CASE p = "password" -> "5e884898"
      [] p = "test123" -> "ecd71870"
      [] OTHER -> "other"

USER_DATABASE == [u \in {"demo_user", "test_user"} |->
                    IF u = "demo_user" THEN "5e884898" ELSE "ef92c9ae"]

(* handle_login *)
handle_login(w, username, password) ==
    IF username = "" \/ password = "" THEN Out(w, FALSE, Err)
    ELSE IF username \in DOMAIN USER_DATABASE
            /\ USER_DATABASE[username] = hash_password(password)
    THEN Out([w EXCEPT !.session.authenticated = TRUE,
                       !.session.username = Some(username)], TRUE, NoUi)
    ELSE Out(w, FALSE, Err)

(* The shortest password handle_signup accepts, and len() on the passwords
   the model types in. *)
MinPasswordLength == 6

PasswordLength(p) ==
    CASE p = "password" -> 8
      [] p = "test123" -> 7
      [] p = "abc" -> 3
      [] OTHER -> 0

(* A failed or successful signup: the objects, whether the account was
   created, the messages, and USER_DATABASE as the handler leaves it. *)
SignupOut(w, val, msgs, db) == [w |-> w, val |-> val, ui |-> msgs, db |-> db]

(* handle_signup without the test for an existing username. *)
handle_signup_Overwrites(w, db, username, password, confirm_password) ==
    IF username = "" \/ password = "" THEN SignupOut(w, FALSE, Err, db)
    ELSE IF password # confirm_password THEN SignupOut(w, FALSE, Err, db)
    ELSE IF PasswordLength(password) < MinPasswordLength THEN SignupOut(w, FALSE, Err, db)
    ELSE SignupOut([w EXCEPT !.session.authenticated = TRUE,
                             !.session.username = Some(username)],
                   TRUE, NoUi,
                   [u \in DOMAIN db \cup {username} |->
                       IF u = username THEN hash_password(password) ELSE db[u]])

(* handle_signup; db: USER_DATABASE when the handler starts. *)
handle_signup(w, db, username, password, confirm_password) ==
    IF username = "" \/ password = "" THEN SignupOut(w, FALSE, Err, db)
    ELSE IF password # confirm_password THEN SignupOut(w, FALSE, Err, db)
    ELSE IF PasswordLength(password) < MinPasswordLength THEN SignupOut(w, FALSE, Err, db)
    ELSE IF username \in DOMAIN db THEN SignupOut(w, FALSE, Err, db)
    ELSE SignupOut([w EXCEPT !.session.authenticated = TRUE,
                             !.session.username = Some(username)],
                   TRUE, NoUi,
                   [u \in DOMAIN db \cup {username} |->
                       IF u = username THEN hash_password(password) ELSE db[u]])

(* get_auth_url; config_ok: the client configuration is there and the flow
   can be built.  In oauth_handler.py its def starts at column 0, below the
   class body; it is modelled as the method of GoogleOAuthHandler that app.py
   calls. *)
get_auth_url(w, config_ok) ==
    IF config_ok THEN Out([w EXCEPT !.session.oauth_flow = TRUE], TRUE, NoUi)
    ELSE Out(w, FALSE, Err)

(* GoogleOAuthHandler._get_user_info; people_ok: the People API answers. *)
fetch_user_info(w, people_ok) ==
    Bind(get_valid_credentials(w, TRUE), LAMBDA c :
        IF ~c.val THEN Out(c.w, FALSE, c.ui)
        ELSE IF people_ok THEN Out(c.w, TRUE, c.ui)
        ELSE Out(c.w, FALSE, UiSum(c.ui, Err)))

(* GoogleOAuthHandler.get_user_info *)
get_user_info(w, people_ok) ==
    IF w.session.google_user_info THEN Out(w, TRUE, NoUi)
    ELSE fetch_user_info(w, people_ok)

(* handle_manual_auth_code that exchanges the code without looking for the
   stored flow. *)
handle_manual_auth_code_NoFlowCheck(w, code_ok, people_ok) ==
    IF ~code_ok THEN Out(w, FALSE, Err)
    ELSE Bind(fetch_user_info([w EXCEPT !.credentials = "valid",
                                        !.session.google_credentials = TRUE,
                                        !.token_file = "valid"], people_ok),
              LAMBDA u :
                Out(IF u.val THEN [u.w EXCEPT !.session.google_user_info = TRUE] ELSE u.w,
                    TRUE, u.ui))

(* GoogleOAuthHandler.handle_manual_auth_code; code_ok: the token endpoint
   accepts the code. *)
handle_manual_auth_code(w, code_ok, people_ok) ==
    IF ~w.session.oauth_flow THEN Out(w, FALSE, Err)
    ELSE IF ~code_ok THEN Out(w, FALSE, Err)
    ELSE Bind(fetch_user_info([w EXCEPT !.credentials = "valid",
                                        !.session.google_credentials = TRUE,
                                        !.token_file = "valid"], people_ok),
              LAMBDA u :
                Out(IF u.val THEN [u.w EXCEPT !.session.google_user_info = TRUE] ELSE u.w,
                    TRUE, u.ui))

(* The "Verify Code" branch of show_auth_page; the call records what
   handle_manual_auth_code returned. *)
verify_code(w, code_ok, people_ok) ==
    Bind(handle_manual_auth_code(w, code_ok, people_ok), LAMBDA h :
        IF ~h.val THEN h
        ELSE Bind(get_user_info(h.w, people_ok), LAMBDA u :
                IF ~u.val THEN Out(u.w, FALSE, UiSum(h.ui, u.ui))
                ELSE Out([u.w EXCEPT !.session.authenticated = TRUE,
                                     !.session.username = Some("Google User"),
                                     !.session.calendar_provider = Some("google"),
                                     !.session.google_user_info = TRUE,
                                     !.service = FALSE,
                                     !.api_handler = FALSE,
                                     !.session.google_auth_url = FALSE],
                         TRUE, UiSum(h.ui, u.ui))))

----------------------------------------------------------------------------
(* The state machine. *)

W == [session |-> session, credentials |-> credentials, service |-> service,
      api_handler |-> api_handler, token_file |-> token_file]

SetW(w) ==
    /\ session' = w.session
    /\ credentials' = w.credentials
    /\ service' = w.service
    /\ api_handler' = w.api_handler
    /\ token_file' = w.token_file

(* A call: its name, the collection it worked on (for sync_calendar_data the
   calendars and the events it fetched), its return value, and whether it
   failed. *)
Call(op, input, val, failed) == [op |-> op, input |-> input, val |-> val, failed |-> failed]
NoCall == Call("none", <<>>, <<>>, FALSE)

(* The call just made becomes ret; prev keeps the one before it when that was
   the same operation on the same collection. *)
Record(call, msgs) ==
    /\ ret' = call
    /\ prev' = IF ret.op = call.op /\ ret.input = call.input THEN ret ELSE NoCall
    /\ ui' = msgs
    /\ threads' = threads

(* The raw records a request hands to the conversion loop. *)
Received(w, resp, items, refresh_ok) ==
    IF is_connected(w, refresh_ok).val /\ resp = "ok" THEN items ELSE <<>>

TokenFiles == {"absent", "valid", "expired"}

(* The callers of sync_calendar_data that share one client and one session,
   and what a caller holds before it calls. *)
Threads == {1, 2}

IdleThread == [pc |-> "idle", batch |-> <<>>, calendars |-> <<>>, events |-> <<>>,
               summary |-> None, seen |-> None]

InitObjects ==
    /\ session = InitSession
    /\ credentials = "none"
    /\ service = FALSE
    /\ api_handler = FALSE
    /\ token_file \in TokenFiles
    /\ now = StartOfClock
    /\ ret = NoCall
    /\ prev = NoCall
    /\ ui = NoUi
    /\ threads = [i \in Threads |-> IdleThread]

(* Calls on the API client. *)

CallGetEvents(resp, refresh_ok) ==
    \E r \in {get_events(W, resp, api_items, refresh_ok)} :
        /\ SetW(r.w)
        /\ Record(Call("get_events", Received(W, resp, api_items, refresh_ok),
                       r.val, resp # "ok"), r.ui)
        /\ UNCHANGED <<now, api_items>>

CallSearchEvents(resp, refresh_ok) ==
    \E r \in {search_events(W, resp, api_items, refresh_ok)} :
        /\ SetW(r.w)
        /\ Record(Call("search_events", Received(W, resp, api_items, refresh_ok),
                       r.val, resp # "ok"), r.ui)
        /\ UNCHANGED <<now, api_items>>

CallGetCalendarStatistics(resp, refresh_ok) ==
    \E r \in {get_calendar_statistics(W, resp, api_items, refresh_ok)},
       evs \in {get_events(W, resp, api_items, refresh_ok)} :
        /\ SetW(r.w)
        /\ Record(Call("get_calendar_statistics", evs.val, r.val, resp # "ok"), r.ui)
        /\ UNCHANGED <<now, api_items>>

CallSyncCalendarData(resp_cal, resp_ev, refresh_ok) ==
    \E r \in {sync_calendar_data(W, resp_cal, resp_ev, api_items, refresh_ok, now)} :
        /\ SetW(r.w)
        /\ Record(Call("sync_calendar_data", <<r.val.calendars, r.val.events>>, r.val,
                       resp_ev # "ok"), r.ui)
        /\ UNCHANGED <<now, api_items>>

(* The environment: time passes. *)

Tick ==
    /\ now < StartOfClock + MaxTicks * ClockStep
    /\ now' = now + ClockStep
    /\ UNCHANGED <<session, credentials, service, api_handler, token_file,
                   api_items, ret, prev, ui, threads>>

(* Two callers run sync_calendar_data on the client of one session.  A call
   is three steps a thread switch can separate: the two requests (lines
   295-298), the summary with its store into the session (lines 301-319) and
   return, and the caller's later look at the session. *)

ThreadFetch(i, resp_cal, resp_ev, items, refresh_ok) ==
    /\ threads[i].pc = "idle"
    /\ \E cals \in {get_calendars(W, resp_cal, refresh_ok)} :
       \E evs \in {get_events(cals.w, resp_ev, items, refresh_ok)} :
           /\ SetW(evs.w)
           /\ threads' = [threads EXCEPT ![i] =
                  [pc |-> "fetched", batch |-> items, calendars |-> cals.val,
                   events |-> evs.val, summary |-> None, seen |-> None]]
    /\ UNCHANGED <<now, api_items, ret, prev, ui>>

ThreadStore(i) ==
    /\ threads[i].pc = "fetched"
    /\ \E summary \in {SyncSummary(threads[i].calendars, threads[i].events, now)} :
           /\ session' = [session EXCEPT !.calendar_sync_data = Some(summary)]
           /\ threads' = [threads EXCEPT ![i].pc = "returned",
                                         ![i].summary = Some(summary)]
    /\ UNCHANGED <<credentials, service, api_handler, token_file,
                   now, api_items, ret, prev, ui>>

ThreadObserve(i) ==
    /\ threads[i].pc = "returned"
    /\ threads' = [threads EXCEPT ![i].pc = "observed",
                                  ![i].seen = session.calendar_sync_data]
    /\ UNCHANGED <<session, credentials, service, api_handler, token_file,
                   now, api_items, ret, prev, ui>>

(* The pages of app.py, as main() routes to them. *)

OnAuthPage == ~session.authenticated
OnProviderPage == session.authenticated /\ session.calendar_provider = None
OnMainApp == session.authenticated /\ session.calendar_provider # None
IsGoogle(sess) == sess.calendar_provider = Some("google")

(* show_main_app asks is_connected() for the status line before it looks at
   the buttons. *)
main_app_header(w, refresh_ok) ==
    IF IsGoogle(w.session) THEN Bind(is_connected(w, refresh_ok), LAMBDA c : c.w) ELSE w

Usernames == {"demo_user", "test_user", ""}
Passwords == {"password", "test123", ""}

Login(username, password) ==
    /\ OnAuthPage
    /\ \E r \in {handle_login(W, username, password)} :
           /\ SetW(r.w)
           /\ Record(Call("handle_login", <<>>, <<>>, ~r.val), r.ui)
    /\ UNCHANGED <<now, api_items>>

(* The "Create Account" form.  USER_DATABASE is a global of the script, which
   Streamlit runs again from its first line on every interaction and on
   st.rerun(): each run of a handler starts from the two entries of lines
   41-44, and the entry a signup writes lives until the rerun that ends the
   handler.  ret.val keeps USER_DATABASE as the handler left it. *)
SignupUsernames == {"demo_user", "new_user", ""}
SignupPasswords == {"password", "abc", ""}

Signup(username, password, confirm_password) ==
    /\ OnAuthPage
    /\ \E r \in {handle_signup(W, USER_DATABASE, username, password, confirm_password)} :
           /\ SetW(r.w)
           /\ Record(Call("handle_signup", <<>>, r.db, ~r.val), r.ui)
    /\ UNCHANGED <<now, api_items>>

(* A click that asks get_auth_url for the link and keeps it in the session. *)
auth_link(w, config_ok) ==
    Bind(get_auth_url(w, config_ok), LAMBDA u :
        Out(IF u.val THEN [u.w EXCEPT !.session.google_auth_url = TRUE] ELSE u.w,
            u.val, u.ui))

GetGoogleAuthLink(config_ok) ==
    /\ OnAuthPage
    /\ \E r \in {auth_link(W, config_ok)} :
           /\ SetW(r.w)
           /\ Record(Call("get_auth_url", <<>>, <<>>, ~r.val), r.ui)
    /\ UNCHANGED <<now, api_items>>

VerifyCode(code_ok, people_ok) ==
    /\ OnAuthPage
    /\ session.google_auth_url
    /\ \E r \in {verify_code(W, code_ok, people_ok)},
          h \in {handle_manual_auth_code(W, code_ok, people_ok)} :
           /\ SetW(r.w)
           /\ Record(Call("handle_manual_auth_code", <<>>, h.val, ~r.val), r.ui)
    /\ UNCHANGED <<now, api_items>>

(* The Google button of show_calendar_provider_selection. *)
choose_google(w, resp_cal, resp_ev, items, refresh_ok, config_ok, t) ==
    Bind(is_authenticated(w, refresh_ok), LAMBDA a :
        IF a.val
        THEN Bind(load_real_google_calendar(
                      [a.w EXCEPT !.session.calendar_provider = Some("google")],
                      resp_cal, resp_ev, items, refresh_ok, t),
                  LAMBDA r : [op |-> "load_real_google_calendar", w |-> r.w,
                              val |-> r.val, ui |-> UiSum(a.ui, r.ui)])
        ELSE Bind(auth_link(a.w, config_ok),
                  LAMBDA u : [op |-> "get_auth_url", w |-> u.w,
                              val |-> u.val, ui |-> UiSum(a.ui, u.ui)]))

ChooseGoogle(resp_cal, resp_ev, refresh_ok, config_ok) ==
    /\ OnProviderPage
    /\ \E r \in {choose_google(W, resp_cal, resp_ev, api_items, refresh_ok, config_ok, now)} :
           /\ SetW(r.w)
           /\ Record(Call(r.op, <<>>, <<>>, ~r.val), r.ui)
    /\ UNCHANGED <<now, api_items>>

(* The Outlook button of show_calendar_provider_selection. *)
ChooseOutlook(file) ==
    /\ OnProviderPage
    /\ \E r \in {load_calendar_data(
                    [W EXCEPT !.session.calendar_provider = Some("outlook")], file)} :
           /\ SetW(r.w)
           /\ Record(Call("load_calendar_data", <<>>, <<>>, ~r.val), r.ui)
    /\ UNCHANGED <<now, api_items>>

(* The "Sync Calendar" button of show_main_app, with the Google provider. *)
ClickSyncGoogle(resp_cal, resp_ev, refresh_ok) ==
    /\ OnMainApp
    /\ IsGoogle(session)
    /\ \E h \in {main_app_header(W, refresh_ok)} :
       \E r \in {load_real_google_calendar(h, resp_cal, resp_ev, api_items,
                                           refresh_ok, now)} :
           /\ SetW(r.w)
           /\ Record(Call("load_real_google_calendar", <<>>, <<>>, ~r.val), r.ui)
    /\ UNCHANGED <<now, api_items>>

(* The "Sync Calendar" button of show_main_app, with another provider. *)
ClickSyncSample(file) ==
    /\ OnMainApp
    /\ ~IsGoogle(session)
    /\ \E r \in {load_calendar_data(W, file)} :
           /\ SetW(r.w)
           /\ Record(Call("load_calendar_data", <<>>, <<>>, ~r.val), r.ui)
    /\ UNCHANGED <<now, api_items>>

(* The sample buttons of calendar_data_page. *)
LoadSample(file, refresh_ok) ==
    /\ OnMainApp
    /\ \E h \in {main_app_header(W, refresh_ok)} :
       \E r \in {load_sample_calendar(h, file)} :
           /\ SetW(r.w)
           /\ Record(Call("load_sample_calendar", <<>>, <<>>, ~r.val), r.ui)
    /\ UNCHANGED <<now, api_items>>

(* The file uploader of calendar_data_page. *)
Upload(file, refresh_ok) ==
    /\ OnMainApp
    /\ file.found
    /\ \E h \in {main_app_header(W, refresh_ok)} :
       \E r \in {upload_calendar(h, file)} :
           /\ SetW(r.w)
           /\ Record(Call("upload_calendar", <<>>, <<>>, ~r.val), r.ui)
    /\ UNCHANGED <<now, api_items>>

(* dashboard_page: ret.val are the metrics it shows. *)
DashboardPage(refresh_ok) ==
    /\ OnMainApp
    /\ \E h \in {main_app_header(W, refresh_ok)} :
           /\ SetW(h)
           /\ Record(Call("dashboard_page", session.parsed_events,
                          DashboardMetrics(session.parsed_events), FALSE), NoUi)
    /\ UNCHANGED <<now, api_items>>

(* The Logout buttons of the provider page and of the main application. *)
Logout(refresh_ok) ==
    /\ session.authenticated
    /\ \E h \in {IF OnMainApp THEN main_app_header(W, refresh_ok) ELSE W} :
           /\ SetW(logout(h))
           /\ Record(Call("logout", <<>>, <<>>, FALSE), NoUi)
    /\ UNCHANGED <<now, api_items>>

----------------------------------------------------------------------------
(* Specifications. *)

(* The aggregator on every batch of at most MaxBatch records, with the
   dashboard of a session that loaded the same calendar. *)
InitStats ==
    /\ InitObjects
    /\ api_items \in SeqsUpTo(ApiRecords, MaxBatch)

NextStats ==
    \/ \E resp \in Responses, ok \in BOOLEAN : CallGetCalendarStatistics(resp, ok)
    \/ Login("demo_user", "password")
    \/ \E resp \in Responses : ChooseGoogle("ok", resp, TRUE, TRUE)
    \/ DashboardPage(TRUE)

SpecStats == InitStats /\ [][NextStats]_vars

(* The calls of the API client, with the clock. *)
InitApi ==
    /\ InitObjects
    /\ api_items \in SeqsUpTo(SmallRecords, MaxFetch)

NextApi ==
    \/ \E resp \in Responses, ok \in BOOLEAN : CallGetEvents(resp, ok)
    \/ \E resp \in Responses, ok \in BOOLEAN : CallSearchEvents(resp, ok)
    \/ \E resp \in Responses, ok \in BOOLEAN : CallGetCalendarStatistics(resp, ok)
    \/ \E rc \in Responses, re \in Responses, ok \in BOOLEAN : CallSyncCalendarData(rc, re, ok)
    \/ Tick

SpecApi == InitApi /\ [][NextApi]_vars

(* Two callers of sync_calendar_data on one client, each with the batch the
   server answers its request with. *)
InitThreads ==
    /\ InitObjects
    /\ api_items = <<>>

NextThreads ==
    \/ \E i \in Threads, rc \in Responses, re \in Responses,
          items \in SeqsUpTo(SmallRecords, MaxFetch), ok \in BOOLEAN :
          ThreadFetch(i, rc, re, items, ok)
    \/ \E i \in Threads : ThreadStore(i)
    \/ \E i \in Threads : ThreadObserve(i)

SpecThreads == InitThreads /\ [][NextThreads]_vars

(* The conversion of every shape of record, through the calls of a client
   whose token file is there. *)
InitNormalize ==
    /\ InitObjects
    /\ token_file = "valid"
    /\ api_items \in SeqsUpTo(NormalizerRecords, MaxRecords)

NextNormalize ==
    \/ \E resp \in Responses, ok \in BOOLEAN : CallGetEvents(resp, ok)
    \/ \E resp \in Responses, ok \in BOOLEAN : CallSearchEvents(resp, ok)
    \/ \E resp \in Responses, ok \in BOOLEAN : CallGetCalendarStatistics(resp, ok)

SpecNormalize == InitNormalize /\ [][NextNormalize]_vars

(* The counts of meetings: the calls of the client and the dashboard of a
   session, on records with and without type hints. *)
InitMeetings ==
    /\ InitObjects
    /\ api_items \in SeqsUpTo(HintedRecords, MaxFetch)

NextMeetings ==
    \/ \E resp \in Responses, ok \in BOOLEAN : CallGetCalendarStatistics(resp, ok)
    \/ \E rc \in Responses, re \in Responses, ok \in BOOLEAN : CallSyncCalendarData(rc, re, ok)
    \/ Login("demo_user", "password")
    \/ \E rc \in Responses, re \in Responses : ChooseGoogle(rc, re, TRUE, TRUE)
    \/ DashboardPage(TRUE)

SpecMeetings == InitMeetings /\ [][NextMeetings]_vars

(* The session of a user who logs in and works with the Google provider. *)
NextGoogle ==
    \/ \E u \in Usernames, p \in Passwords : Login(u, p)
    \/ \E rc \in Responses, re \in Responses, ok \in BOOLEAN, c \in BOOLEAN :
          ChooseGoogle(rc, re, ok, c)
    \/ \E rc \in Responses, re \in Responses, ok \in BOOLEAN : ClickSyncGoogle(rc, re, ok)
    \/ \E ok \in BOOLEAN : DashboardPage(ok)
    \/ \E ok \in BOOLEAN : Logout(ok)

SpecGoogle == InitApi /\ [][NextGoogle]_vars

(* The session of the application. *)
Init ==
    /\ InitObjects
    /\ api_items \in SeqsUpTo(SmallRecords, MaxFetch)

Next ==
    \/ \E u \in Usernames, p \in Passwords : Login(u, p)
    \/ \E u \in SignupUsernames, p \in SignupPasswords, c \in SignupPasswords :
          Signup(u, p, c)
    \/ \E c \in BOOLEAN : GetGoogleAuthLink(c)
    \/ \E c \in BOOLEAN, p \in BOOLEAN : VerifyCode(c, p)
    \/ \E rc \in Responses, re \in Responses, ok \in BOOLEAN, c \in BOOLEAN :
          ChooseGoogle(rc, re, ok, c)
    \/ \E f \in FileOutcomes : ChooseOutlook(f)
    \/ \E rc \in Responses, re \in Responses, ok \in BOOLEAN : ClickSyncGoogle(rc, re, ok)
    \/ \E f \in FileOutcomes : ClickSyncSample(f)
    \/ \E f \in FileOutcomes, ok \in BOOLEAN : LoadSample(f, ok)
    \/ \E f \in FileOutcomes, ok \in BOOLEAN : Upload(f, ok)
    \/ \E ok \in BOOLEAN : DashboardPage(ok)
    \/ \E ok \in BOOLEAN : Logout(ok)

Spec == Init /\ [][Next]_vars

----------------------------------------------------------------------------
(* Properties. *)

StatsCall == ret.op = "get_calendar_statistics"
FetchCall == ret.op \in {"get_events", "search_events"}

(* The sum of the values of a dict of counts. *)
RECURSIVE SumValues(_)
SumValues(m) ==
    IF DOMAIN m = {} THEN 0
    ELSE LET k == CHOOSE x \in DOMAIN m : TRUE
         IN  m[k] + SumValues([x \in DOMAIN m \ {k} |-> m[x]])

(* The sum of the durations of the first n events. *)
RECURSIVE DurationUpTo(_, _)
DurationUpTo(events, n) ==
    IF n = 0 THEN 0 ELSE events[n].duration_minutes + DurationUpTo(events, n - 1)

HasKeys(d, keys) == keys \subseteq DOMAIN d

(* C1: get_calendar_statistics applied to zero events returns a summary with
   total_events = 0, average_event_duration = 0 and longest_event_duration = 0. *)
C1_EmptyGivesZeroSummary ==
    (StatsCall /\ ret.input = <<>>) =>
        /\ HasKeys(ret.val, {"total_events", "average_event_duration",
                             "longest_event_duration"})
        /\ ret.val.total_events = 0
        /\ ret.val.average_event_duration.num = 0
        /\ ret.val.longest_event_duration = 0

(* C2: in the summary the aggregator returns for any collection of events, the
   values of events_by_type sum to total_events and so do those of
   events_by_day. *)
C2_BucketSumsEqualTotal ==
    StatsCall =>
        /\ HasKeys(ret.val, {"total_events", "events_by_type", "events_by_day"})
        /\ SumValues(ret.val.events_by_type) = ret.val.total_events
        /\ SumValues(ret.val.events_by_day) = ret.val.total_events

(* The same for the collections that are not empty. *)
BucketSumsOfNonEmpty ==
    (StatsCall /\ ret.input # <<>>) =>
        /\ SumValues(ret.val.events_by_type) = ret.val.total_events
        /\ SumValues(ret.val.events_by_day) = ret.val.total_events

(* prev and ret are two runs of one aggregation on the same events. *)
TwoRuns(op) == ret.op = op /\ prev.op = op

(* C3 as claimed: two runs of get_calendar_statistics, or of
   sync_calendar_data, on the same collection of events return identical
   summaries, field for field. *)
C3_TwoRunsIdentical ==
    (TwoRuns("get_calendar_statistics") \/ TwoRuns("sync_calendar_data")) =>
        ret.val = prev.val

(* The fields of the sync summary that are read off the clock. *)
ClockFields == {"sync_time", "today_events"}

(* C3 amended: two runs of get_calendar_statistics on the same collection of
   events return identical dicts; two runs of sync_calendar_data on the same
   calendars and events return summaries that agree on every field except
   sync_time and today_events, which are taken from datetime.now(). *)
C3_TwoRunsAgree ==
    /\ TwoRuns("get_calendar_statistics") => ret.val = prev.val
    /\ TwoRuns("sync_calendar_data") =>
           /\ DOMAIN ret.val = DOMAIN prev.val
           /\ \A f \in DOMAIN ret.val \ ClockFields : ret.val[f] = prev.val[f]

C3_Witness ==
    /\ TwoRuns("sync_calendar_data")
    /\ ret.val.total_events > 0
    /\ ret.val.sync_time # prev.val.sync_time
    /\ ret.val.today_events # prev.val.today_events

(* The events of the records of a batch that convert, in the order of the
   batch. *)
Successes(items) ==
    LET ok == SelectSeq(items, LAMBDA r : from_google_calendar(r).ok)
    IN  [i \in 1..Len(ok) |-> from_google_calendar(ok[i]).event]

(* C4: the list get_events and search_events return holds exactly the records
   of the batch whose conversion succeeded, in the order of the input,
   wherever the failing records are. *)
C4_FailuresDoNotAbortBatch ==
    FetchCall => ret.val = Successes(ret.input)

C4_Witness ==
    /\ ret.op = "get_events"
    /\ Len(ret.input) >= 2
    /\ ~from_google_calendar(ret.input[1]).ok
    /\ Len(ret.val) = Len(ret.input) - 1

(* C5: after any batch the number of returned events plus the number of
   reported errors equals the number of input records. *)
C5_EveryFailureReported ==
    FetchCall => Len(ret.val) + ui.warnings = Len(ret.input)

RefreshOps == {"load_real_google_calendar", "load_calendar_data",
               "load_sample_calendar", "upload_calendar"}

(* C6: a refresh that fails in a session that holds a snapshot leaves the
   snapshot (parsed_events and calendar_data) as it was. *)
C6_FailedRefreshKeepsSnapshot ==
    [][(ret'.op \in RefreshOps /\ ret'.failed /\ session.calendar_data # None) =>
           Snapshot(session') = Snapshot(session)]_vars

(* calendar_data and parsed_events come from the same batch. *)
SameBatch(sess) ==
    IF sess.calendar_data = None THEN sess.parsed_events = <<>>
    ELSE LET data == sess.calendar_data[1]
         IN  IF data.kind = "google"
             THEN data.events = SeqMap(sess.parsed_events, to_dict)
             ELSE /\ parse_calendar(data).ok
                  /\ parse_calendar(data).events = sess.parsed_events

(* C7: in every session state calendar_data and parsed_events come from the
   same batch. *)
C7_SnapshotFromOneBatch == SameBatch(session)

(* C8: a call of sync_calendar_data or get_calendar_statistics leaves every
   entry of the session state unchanged. *)
C8_AggregationIsStateless ==
    [][(ret'.op \in {"sync_calendar_data", "get_calendar_statistics"}) =>
           session' = session]_vars

(* The totals of a collection of events, from their definitions. *)
TotalsFromDefinitions(events, n, meetings, focus, total, longest, avg) ==
    /\ n = Len(events)
    /\ meetings = Cardinality({i \in DOMAIN events : events[i].is_meeting})
    /\ focus = Cardinality({i \in DOMAIN events : events[i].event_type = "focus_time"})
    /\ total = DurationUpTo(events, Len(events))
    /\ \E i \in DOMAIN events : events[i].duration_minutes = longest
    /\ \A i \in DOMAIN events : events[i].duration_minutes <= longest
    /\ avg.den > 0
    /\ avg.num * n = total * avg.den

Durations(events) == [i \in DOMAIN events |-> events[i].duration_minutes]

(* C9: for a collection that is not empty the aggregator's totals are the
   number of events, the number with is_meeting, the number of type
   focus_time, the sum and the maximum of duration_minutes, and an average
   whose product with total_events is total_duration_minutes; meetings of 30,
   60 and 90 minutes with a focus block of 25 give 4, 205, 51.25 and 90; and
   the metrics of dashboard_page are the same values on the same events. *)
C9_TotalsMatchDefinitions ==
    /\ (StatsCall /\ ret.input # <<>>) =>
           /\ TotalsFromDefinitions(ret.input,
                  ret.val.total_events, ret.val.total_meetings,
                  ret.val.total_focus_time, ret.val.total_duration_minutes,
                  ret.val.longest_event_duration, ret.val.average_event_duration)
           /\ Durations(ret.input) = <<30, 60, 90, 25>> =>
                  /\ ret.val.total_events = 4
                  /\ ret.val.total_duration_minutes = 205
                  /\ ret.val.average_event_duration = [num |-> 205, den |-> 4]
                  /\ ret.val.longest_event_duration = 90
    /\ (ret.op = "dashboard_page" /\ ret.input # <<>>) =>
           /\ TotalsFromDefinitions(ret.input,
                  ret.val.total_events, ret.val.meetings, ret.val.focus_time,
                  ret.val.total_duration, ret.val.longest_event, ret.val.avg_duration)
           /\ ret.val.avg_duration = CalendarStatistics(ret.input).average_event_duration

C9_Witness ==
    /\ StatsCall
    /\ Durations(ret.input) = <<30, 60, 90, 25>>
    /\ ret.val.total_meetings = 3
    /\ ret.val.total_focus_time = 1
    /\ ret.val.average_event_duration = [num |-> 205, den |-> 4]

AllKeys(st) ==
    /\ DOMAIN st.events_by_type = CanonicalTypes
    /\ DOMAIN st.events_by_hour = 0..23
    /\ DOMAIN st.events_by_day = {DayNames[i] : i \in DOMAIN DayNames}

NoZeroCount(m) == \A k \in DOMAIN m : m[k] > 0

(* C10: for every input, either each of events_by_type, events_by_hour and
   events_by_day holds all of its possible keys, or none of them holds a key
   whose count is 0. *)
C10_OneZeroCountPolicy ==
    (StatsCall /\ ret.val # EmptyDict) =>
        \/ AllKeys(ret.val)
        \/ /\ NoZeroCount(ret.val.events_by_type)
           /\ NoZeroCount(ret.val.events_by_hour)
           /\ NoZeroCount(ret.val.events_by_day)

C10_Witness ==
    /\ StatsCall
    /\ ret.val # EmptyDict
    /\ DOMAIN ret.val.events_by_type = {"meeting"}
    /\ Cardinality(DOMAIN ret.val.events_by_hour) = 2

(* The sequence s read in the order the permutation p gives. *)
Permute(s, p) == [i \in DOMAIN s |-> s[p[i]]]

(* C11: for every collection of events get_calendar_statistics worked on and
   every permutation of it, the aggregation of the permuted collection is the
   dict the call returned: the same counts, totals and bucket counts. *)
C11_OrderDoesNotMatter ==
    StatsCall =>
        \A p \in Permutations(DOMAIN ret.input) :
            CalendarStatistics(Permute(ret.input, p)) = ret.val

C11_Witness ==
    /\ StatsCall
    /\ Len(ret.input) = 3
    /\ ret.input[1].start_time > ret.input[2].start_time
    /\ ret.input[1].duration_minutes < ret.input[3].duration_minutes
    /\ ret.input[1].event_type # ret.input[3].event_type

(* C12: when two callers run sync_calendar_data side by side on different
   batches, the sync data a caller finds in the session after its call is the
   summary its own call returned, as it is when the call runs alone. *)
C12_ConcurrentCallsAsIfAlone ==
    \A i \in Threads, j \in Threads :
        (/\ threads[i].pc = "observed"
         /\ threads[j].pc # "idle"
         /\ threads[i].batch # threads[j].batch)
        => threads[i].seen = threads[i].summary

(* A caller that runs alone finds its own summary. *)
AloneFindsOwnSummary ==
    \A i \in Threads :
        (threads[i].pc = "observed" /\ \A j \in Threads \ {i} : threads[j].pc = "idle")
        => threads[i].seen = threads[i].summary

(* The events a call handed out or aggregated. *)
EventsOfCall ==
    IF FetchCall THEN ret.val ELSE IF StatsCall THEN ret.input ELSE <<>>

(* C13: every event in the list get_events or search_events returns, and
   every event get_calendar_statistics aggregates, has duration_minutes equal
   to end_time - start_time in minutes and not negative. *)
C13_DurationIsEndMinusStart ==
    \A i \in DOMAIN EventsOfCall :
        /\ EventsOfCall[i].duration_minutes =
               EventsOfCall[i].end_time - EventsOfCall[i].start_time
        /\ EventsOfCall[i].duration_minutes >= 0

C13_Witness ==
    /\ ret.op = "get_events"
    /\ Len(ret.val) = 1
    /\ ret.val[1].duration_minutes = MinutesPerDay - 1
    /\ ret.val[1].start_time = MinutesPerDay

(* The expression is_meeting is derived from. *)
MeetingExpression(e) == e.event_type = "meeting" \/ Len(e.participants) > 1

FlagsDerived(events) ==
    \A i \in DOMAIN events : events[i].is_meeting = MeetingExpression(events[i])

CountOfMeetings(events) ==
    Cardinality({i \in DOMAIN events : MeetingExpression(events[i])})

(* C14: every event the session holds and every event a call aggregates has
   is_meeting = (event_type = "meeting" or more than one participant), and
   total_meetings of get_calendar_statistics and of sync_calendar_data and the
   Meetings metric of dashboard_page are the number of events that satisfy
   that expression. *)
C14_MeetingCountsFollowExpression ==
    /\ FlagsDerived(session.parsed_events)
    /\ (StatsCall /\ ret.input # <<>>) =>
           /\ FlagsDerived(ret.input)
           /\ ret.val.total_meetings = CountOfMeetings(ret.input)
    /\ ret.op = "sync_calendar_data" =>
           /\ FlagsDerived(ret.val.events)
           /\ ret.val.total_meetings = CountOfMeetings(ret.val.events)
    /\ (ret.op = "dashboard_page" /\ ret.input # <<>>) =>
           ret.val.meetings = CountOfMeetings(ret.input)

C14_Witness ==
    /\ ret.op = "dashboard_page"
    /\ Len(ret.input) = 2
    /\ ret.input[1].event_type = "personal"
    /\ Len(ret.input[1].participants) = 2
    /\ ret.input[2].event_type = "other"
    /\ ret.val.meetings = 1

(* A raw record that carries both times, and one whose end is earlier than
   its start. *)
HasInterval(raw) == raw.start.kind # "missing" /\ raw.end.kind # "missing"
EndsBeforeStart(raw) == HasInterval(raw) /\ EndTime(raw.end) < StartTime(raw.start)

(* The records of a batch that carry an interval that is not reversed. *)
Accepted(items) == SelectSeq(items, LAMBDA r : HasInterval(r) /\ ~EndsBeforeStart(r))

(* C15: a record of the batch whose end is earlier than its start fails its
   conversion with the error InvalidInterval, and the list get_events or
   search_events returns holds one event for each other well-formed record
   and none for it: it is neither included nor clamped to an empty event. *)
C15_ReversedIsRejected ==
    FetchCall =>
        /\ \A i \in DOMAIN ret.input :
               EndsBeforeStart(ret.input[i]) =>
                   /\ ~from_google_calendar(ret.input[i]).ok
                   /\ from_google_calendar(ret.input[i]).error = "InvalidInterval"
        /\ Len(ret.val) = Len(Accepted(ret.input))
        /\ \A i \in DOMAIN ret.val : ret.val[i].end_time >= ret.val[i].start_time

C15_Witness ==
    /\ ret.op = "get_events"
    /\ Len(ret.input) = 1
    /\ EndsBeforeStart(ret.input[1])
    /\ ret.val = <<>>
    /\ ui.warnings = 1

(* A type hint the classification recognizes, in either case of letters. *)
Recognized(hint) == Lower(hint) \in CanonicalTypes

(* C16: the type of every event get_events or search_events returns follows
   the priority order: a recognized hint decides; otherwise more than one
   participant gives meeting; otherwise a title with the keyword gives
   focus_time; otherwise no participant gives personal; otherwise other.  It
   is one of the four canonical types. *)
C16_ClassificationByPriority ==
    FetchCall =>
        LET acc == Accepted(ret.input)
        IN  /\ Len(acc) = Len(ret.val)
            /\ \A i \in DOMAIN acc :
                   LET raw == acc[i]
                       n == Len(raw.attendees)
                       type == ret.val[i].event_type
                   IN  /\ type \in CanonicalTypes
                       /\ Recognized(raw.hint) => type = Lower(raw.hint)
                       /\ (~Recognized(raw.hint) /\ n > 1) => type = "meeting"
                       /\ (~Recognized(raw.hint) /\ n <= 1 /\ ContainsFocus(raw.summary))
                              => type = "focus_time"
                       /\ (~Recognized(raw.hint) /\ n = 0 /\ ~ContainsFocus(raw.summary))
                              => type = "personal"
                       /\ (~Recognized(raw.hint) /\ n = 1 /\ ~ContainsFocus(raw.summary))
                              => type = "other"

C16_Witness ==
    /\ ret.op = "get_events"
    /\ Len(ret.input) = 1
    /\ ret.input[1].hint = "holiday"
    /\ Len(ret.input[1].attendees) = 2
    /\ ContainsFocus(ret.input[1].summary)
    /\ Len(ret.val) = 1
    /\ ret.val[1].event_type = "meeting"

(* C17 as claimed: in every event a call hands out, more than one participant
   implies the type meeting, and is_meeting = (event_type = "meeting"). *)
C17_IsMeetingRedundant ==
    \A i \in DOMAIN EventsOfCall :
        /\ Len(EventsOfCall[i].participants) > 1 => EventsOfCall[i].event_type = "meeting"
        /\ EventsOfCall[i].is_meeting = (EventsOfCall[i].event_type = "meeting")

(* C17 amended: for an event whose record carries no recognized type hint,
   more than one participant implies the type meeting, and is_meeting =
   (event_type = "meeting"); a record with a recognized hint other than
   meeting and more than one participant gives an event with is_meeting true
   and another type. *)
C17_RedundantWithoutHint ==
    FetchCall =>
        LET acc == Accepted(ret.input)
        IN  /\ Len(acc) = Len(ret.val)
            /\ \A i \in DOMAIN acc :
                   LET raw == acc[i]
                       n == Len(raw.attendees)
                       e == ret.val[i]
                   IN  /\ ~Recognized(raw.hint) =>
                              /\ n > 1 => e.event_type = "meeting"
                              /\ e.is_meeting = (e.event_type = "meeting")
                       /\ (Recognized(raw.hint) /\ Lower(raw.hint) # "meeting" /\ n > 1) =>
                              /\ e.is_meeting
                              /\ e.event_type # "meeting"

C17_Witness ==
    /\ ret.op = "search_events"
    /\ Len(ret.input) = 1
    /\ ret.input[1].hint = ""
    /\ Len(ret.input[1].attendees) = 2
    /\ Len(ret.val) = 1
    /\ ret.val[1].is_meeting
    /\ ret.val[1].event_type = "meeting"

(* C18: in the state logout leaves, authenticated is False, username,
   calendar_provider and calendar_data are None, parsed_events is empty, and
   neither calendar_sync_data nor google_auth_url nor an entry of the OAuth
   handler is left in the session. *)
C18_LogoutClearsSession ==
    ret.op = "logout" =>
        /\ ~session.authenticated
        /\ session.username = None
        /\ session.calendar_provider = None
        /\ session.calendar_data = None
        /\ session.parsed_events = <<>>
        /\ session.calendar_sync_data = Absent
        /\ ~session.google_auth_url
        /\ ~session.google_credentials
        /\ ~session.google_user_info
        /\ ~session.oauth_flow

(* The entries logout assigns are reset. *)
LogoutResetsItsEntries ==
    ret.op = "logout" =>
        /\ ~session.authenticated
        /\ session.username = None
        /\ session.calendar_provider = None
        /\ session.calendar_data = None
        /\ session.parsed_events = <<>>

(* is_authenticated() returns False, whether or not a refresh would succeed. *)
NotAuthenticated == \A ok \in BOOLEAN : ~is_authenticated(W, ok).val

(* The handler holds no credentials in memory, in the session or on disk, and
   no flow. *)
HandlerCleared ==
    /\ credentials = "none"
    /\ ~session.google_credentials
    /\ ~session.oauth_flow
    /\ token_file = "absent"

(* C19: a step in which the handler is logged out removes the in-memory
   credentials, the session credentials, the stored flow and the token file
   and ends with is_authenticated() False; and from a state where it is False
   every step that is not a successful handle_manual_auth_code leaves it
   False. *)
C19_LoggedOutUntilNewCode ==
    [][/\ (ret'.op = "logout" \/ (credentials = "valid" /\ credentials' = "none"))
           => (HandlerCleared' /\ NotAuthenticated')
       /\ (NotAuthenticated /\ ~(ret'.op = "handle_manual_auth_code" /\ ret'.val = TRUE))
           => NotAuthenticated']_vars

C19_Witness ==
    /\ ret.op = "get_auth_url"
    /\ session.authenticated
    /\ session.calendar_sync_data # Absent
    /\ token_file = "absent"
    /\ NotAuthenticated

(* C20: whenever is_connected() returns True, the OAuth handler of the client
   holds valid credentials. *)
C20_ConnectedMeansCredentials ==
    \A ok \in BOOLEAN :
        is_connected(W, ok).val => is_authenticated(is_connected(W, ok).w, ok).val

(* C21: get_events always returns a list, and the empty one whenever the
   client is not connected or the request fails with an HttpError or another
   exception; a 401 on a connected client logs the handler out; every other
   failure changes nothing beyond what connecting did, so valid credentials
   stay valid. *)
C21_GetEventsFailsEmpty ==
    /\ (ret.op = "get_events" /\ ret.failed) => ret.val = <<>>
    /\ \A resp \in Responses, ok \in BOOLEAN :
          \E c \in {is_connected(W, ok)}, r \in {get_events(W, resp, api_items, ok)} :
            /\ (~c.val \/ resp # "ok") => r.val = <<>>
            /\ (c.val /\ resp = "401") =>
                    /\ r.w.credentials = "none"
                    /\ ~r.w.session.google_credentials
                    /\ ~r.w.session.oauth_flow
                    /\ r.w.token_file = "absent"
            /\ (~c.val \/ resp \notin {"ok", "401"}) =>
                    /\ r.w = c.w
                    /\ credentials = "valid" => r.w.credentials = "valid"

(* A connected client whose get_events was answered with a 401. *)
C21_Witness ==
    /\ ret.op = "get_events" /\ ret.failed /\ ret.val = <<>>
    /\ service /\ api_handler
    /\ credentials = "none" /\ token_file = "absent"

(* C22: handle_manual_auth_code called while the session holds no OAuth flow
   returns False; a call that returns False leaves the handler's credentials
   and the session's google_credentials as they were; the flow appears in the
   session only through a get_auth_url that succeeds, and a logout removes
   it. *)
C22_CodeStepFollowsUrlStep ==
    [][/\ ret'.op = "handle_manual_auth_code" =>
             /\ ~session.oauth_flow => ret'.val = FALSE
             /\ ret'.val = FALSE =>
                    /\ credentials' = credentials
                    /\ session'.google_credentials = session.google_credentials
       /\ (~session.oauth_flow /\ session'.oauth_flow) =>
             (ret'.op = "get_auth_url" /\ ~ret'.failed)
       /\ ret'.op = "logout" => ~session'.oauth_flow]_vars

(* A code was verified after a logout removed the flow: the authorization
   link is still in the session, the flow is not, and the call returned
   False. *)
C22_Witness ==
    /\ ret.op = "handle_manual_auth_code"
    /\ ret.val = FALSE
    /\ session.google_auth_url
    /\ ~session.oauth_flow
    /\ credentials = "none"

(* C23: in every state of the session, parsed_events non-empty implies that
   calendar_provider is set, calendar_provider set implies that authenticated
   is True, and the page main() routes to is the main application only when
   the session is authenticated. *)
C23_SessionWellFormed ==
    /\ session.parsed_events # <<>> => session.calendar_provider # None
    /\ session.calendar_provider # None => session.authenticated
    /\ OnMainApp => session.authenticated
    /\ ~session.authenticated => (OnAuthPage /\ ~OnProviderPage /\ ~OnMainApp)

(* A session that signed in, chose a provider, loaded events and was shown
   the dashboard of the main application. *)
C23_Witness ==
    /\ ret.op = "dashboard_page"
    /\ session.parsed_events # <<>>
    /\ session.calendar_provider # None
    /\ session.authenticated

(* What handle_login accepts: a username of USER_DATABASE with the hash of
   the password typed in. *)
LoginAccepted(u, p) ==
    /\ u # "" /\ p # ""
    /\ u \in DOMAIN USER_DATABASE
    /\ USER_DATABASE[u] = hash_password(p)

(* What handle_signup accepts: both fields filled in, the confirmation equal
   to the password, at least six characters, a username not yet taken. *)
SignupAccepted(u, p, c) ==
    /\ u # "" /\ p # ""
    /\ p = c
    /\ PasswordLength(p) >= MinPasswordLength
    /\ u \notin DOMAIN USER_DATABASE

(* In every state, for every input: a login or signup succeeds exactly when
   its checks pass, a rejected one changes nothing, and a signup keeps every
   entry USER_DATABASE had. *)
HandlersRejectCleanly ==
    /\ \A u \in Usernames, p \in Passwords :
          \E r \in {handle_login(W, u, p)} :
            /\ r.val <=> LoginAccepted(u, p)
            /\ ~r.val => r.w = W
            /\ r.val => r.w.session.authenticated
    /\ \A u \in SignupUsernames, p \in SignupPasswords, c \in SignupPasswords :
          \E r \in {handle_signup(W, USER_DATABASE, u, p, c)} :
            /\ r.val <=> SignupAccepted(u, p, c)
            /\ ~r.val => (r.w = W /\ r.db = USER_DATABASE)
            /\ r.val => r.w.session.authenticated
            /\ \A k \in DOMAIN USER_DATABASE :
                  k \in DOMAIN r.db /\ r.db[k] = USER_DATABASE[k]

(* C24: authenticated turns from False to True only in a handle_login, a
   handle_signup or a Google code verification that succeeded, the last one
   with user info in the session; a login succeeds only with a username of
   USER_DATABASE and its password hash, a signup only when every check
   passes; a rejected login or signup leaves the session and USER_DATABASE
   as they were, and a signup never changes an existing entry. *)
C24_AuthenticatedOnlyByValidSignIn ==
    /\ []HandlersRejectCleanly
    /\ [][/\ (~session.authenticated /\ session'.authenticated) =>
                /\ ret'.op \in {"handle_login", "handle_signup", "handle_manual_auth_code"}
                /\ ~ret'.failed
                /\ ret'.op = "handle_manual_auth_code" =>
                       (ret'.val = TRUE /\ session'.google_user_info)
          /\ (ret'.op \in {"handle_login", "handle_signup"} /\ ret'.failed) =>
                /\ session' = session
                /\ ret'.op = "handle_signup" => ret'.val = USER_DATABASE]_vars

(* A signup created the account of a new user and signed them in, with the
   entries USER_DATABASE had still in place. *)
C24_Witness ==
    /\ ret.op = "handle_signup"
    /\ ~ret.failed
    /\ session.authenticated
    /\ session.username = Some("new_user")
    /\ "new_user" \in DOMAIN ret.val
    /\ ret.val["demo_user"] = USER_DATABASE["demo_user"]

(* The hours of a day, as datetime.hour gives them. *)
HoursOfDay == 0 .. 23

(* C25: in the summary the aggregator returns for any collection of events,
   every key of events_by_hour is an hour of the day and the values of
   events_by_hour sum to total_events. *)
C25_HourBucketsCoverEvents ==
    StatsCall =>
        /\ HasKeys(ret.val, {"total_events", "events_by_hour"})
        /\ DOMAIN ret.val.events_by_hour \subseteq HoursOfDay
        /\ SumValues(ret.val.events_by_hour) = ret.val.total_events

(* The same for the collections that are not empty. *)
HourBucketsOfNonEmpty ==
    (StatsCall /\ ret.input # <<>>) =>
        /\ DOMAIN ret.val.events_by_hour \subseteq HoursOfDay
        /\ SumValues(ret.val.events_by_hour) = ret.val.total_events

====
